---- MODULE Spec2Model ----
(***************************************************************************)
(* N-step advantage actor-critic objective (agentnet/learning/a2c_n_step). *)
(*                                                                         *)
(* get_elementwise_objective is a pure function of its arguments.  The     *)
(* model draws an argument record `inp`, applies the function in one step  *)
(* (action Call) and keeps everything the function computed on the way in  *)
(* `out`: the reference values as returned by the return estimator, after  *)
(* the terminal override, after the crop of the last column, the log       *)
(* probabilities, the two loss terms and the returned loss.                *)
(*                                                                         *)
(* Number representation.                                                  *)
(*  - rewards, state values and after-end values are integers;             *)
(*  - gamma is a rational <<num, den>> with den a power of two;            *)
(*  - reference values are exact rationals stored as numerators over       *)
(*    Scale = 2^MaxT, so that up to MaxT multiplications by gamma = 1/2    *)
(*    are exact;                                                           *)
(*  - probabilities are stored in halves (0, 1, 2 stand for 0, 1/2, 1) and *)
(*    logarithms in units of ln 2, so log(1/2) = -1 and log(1) = 0;        *)
(*  - min_proba is stored by its sign: 1 stands for 2^-MinProbaLog2        *)
(*    (about 1e-30, the default), 0 for 0, -1 for -2^-MinProbaLog2;        *)
(*  - the loss terms are IEEE floats as far as non-finite values go: a     *)
(*    float is [cls |-> "finite" | "inf" | "nan", v |-> value or sign],    *)
(*    log(0) is -inf, inf * 0 is nan.  Finite losses are numerators over   *)
(*    Scale^2.                                                             *)
(*  - The sentinels "always", "zeros" and None are the empty sequence; an  *)
(*    integer n_steps is the one-element sequence <<n>>.                   *)
(***************************************************************************)
EXTENDS Integers, Sequences, FiniteSets, TLC

VARIABLES inp, out, pc

vars == <<inp, out, pc>>

\* Longest trajectory (time axis) of the inputs.
MaxT == 3
\* Largest batch (row axis) of the inputs.
MaxBatch == 2
\* -log2 of the default min_proba: 2^-100 is about 1e-30.
MinProbaLog2 == 100

Scale == 2 ^ MaxT

always == <<>>
zeros == <<>>
None == <<>>

(***************************************************************************)
(* IEEE arithmetic on the loss terms                                       *)
(***************************************************************************)
Fin(n) == [cls |-> "finite", v |-> n]
PosInf == [cls |-> "inf", v |-> 1]
NegInf == [cls |-> "inf", v |-> -1]
NaN == [cls |-> "nan", v |-> 0]

IsFinite(x) == x.cls = "finite"

Sign(n) == IF n > 0 THEN 1 ELSE IF n < 0 THEN -1 ELSE 0

FNeg(x) ==
    IF x.cls = "nan" THEN NaN ELSE [cls |-> x.cls, v |-> 0 - x.v]

FMul(x, y) ==
    IF x.cls = "nan" \/ y.cls = "nan" THEN NaN
    ELSE IF x.cls = "finite" /\ y.cls = "finite" THEN Fin(x.v * y.v)
    ELSE IF x.v = 0 \/ y.v = 0 THEN NaN
    ELSE [cls |-> "inf", v |-> Sign(x.v) * Sign(y.v)]

FAdd(x, y) ==
    IF x.cls = "nan" \/ y.cls = "nan" THEN NaN
    ELSE IF x.cls = "finite" /\ y.cls = "finite" THEN Fin(x.v + y.v)
    ELSE IF x.cls = "inf" /\ y.cls = "inf" THEN (IF x.v = y.v THEN x ELSE NaN)
    ELSE IF x.cls = "inf" THEN x ELSE y

\* T.log of a probability given in halves.
FLog(p) ==
    IF p = 0 THEN NegInf ELSE IF p = 1 THEN Fin(-1) ELSE Fin(0)

\* T.log(action_probas + min_proba): a probability of 1/2 or 1 absorbs the
\* tiny min_proba, 0 + min_proba is min_proba itself.
FLogPlus(p, min_proba) ==
    IF p # 0 THEN FLog(p)
    ELSE IF min_proba > 0 THEN Fin(0 - MinProbaLog2)
    ELSE IF min_proba = 0 THEN NegInf
    ELSE NaN

(***************************************************************************)
(* Tensors [batch, tick] are sequences of rows.                            *)
(***************************************************************************)
Batch(x) == 1 .. Len(x)
Ticks(x) == 1 .. Len(x[1])

MulGamma(g, x) == (g[1] * x) \div g[2]

ones_like(x) == [b \in Batch(x) |-> [t \in Ticks(x) |-> 1]]

(***************************************************************************)
(* helpers.get_n_step_value_reference                                      *)
(***************************************************************************)
\* One row of the backward recurrence: the reference value at tick t.
RECURSIVE backward_V_step(_, _, _, _, _, _, _)
backward_V_step(t, V, r, alive, n_steps, g, after_end) ==
    LET T == Len(r)
        window_ends == t = T \/ (n_steps # None /\ (T - t) % n_steps[1] = 0)
        next_Vpred == IF t = T THEN after_end * Scale
                      ELSE V[t + 1] * Scale * alive[t + 1]
        next_V == IF window_ends THEN next_Vpred
                  ELSE backward_V_step(t + 1, V, r, alive, n_steps, g, after_end)
    IN  IF alive[t] = 1 THEN r[t] * Scale + MulGamma(g, next_V) ELSE 0

get_n_step_value_reference(state_values, rewards, is_alive, n_steps, optimal_state_values_after_end, gamma_or_gammas) ==
    IF n_steps # None /\ n_steps[1] <= 0
    THEN [error |-> "InvalidConfiguration", value |-> <<>>]
    ELSE LET alive == IF is_alive = always THEN ones_like(rewards) ELSE is_alive
             after_end(b) == IF optimal_state_values_after_end = zeros THEN 0
                             ELSE optimal_state_values_after_end[b]
         IN  [error |-> "",
              value |-> [b \in Batch(rewards) |-> [t \in Ticks(rewards) |->
                  backward_V_step(t, state_values[b], rewards[b], alive[b],
                                  n_steps, gamma_or_gammas, after_end(b))]]]

(***************************************************************************)
(* helpers.get_end_indicator, helpers.get_action_Qvalues,                  *)
(* utils.grad.consider_constant                                            *)
(***************************************************************************)
\* 1 at the last alive tick of a row and, with force_end_at_t_max, at the
\* last tick of every row.
get_end_indicator(is_alive, force_end_at_t_max) ==
    [b \in Batch(is_alive) |-> [t \in Ticks(is_alive) |->
        IF t = Len(is_alive[b])
        THEN (IF force_end_at_t_max THEN 1 ELSE 0)
        ELSE (IF is_alive[b][t] = 1 /\ is_alive[b][t + 1] = 0 THEN 1 ELSE 0)]]

\* policy[batch, tick, actions[batch, tick]]; action ids start at 0.
get_action_Qvalues(policy, actions) ==
    [b \in Batch(actions) |-> [t \in Ticks(actions) |->
        policy[b][t][actions[b][t] + 1]]]

\* A tensor as the differentiation graph sees it: its values, and whether the
\* gradient through it is defined to be zero.
Var(x) == [val |-> x, const |-> FALSE]
consider_constant(x) == [val |-> x.val, const |-> TRUE]

(***************************************************************************)
(* get_elementwise_objective, statement by statement                       *)
(***************************************************************************)

\* Mutant: the reference is always built from the current state values.
StateValuesTarget_ignores_target(a) == a.state_values

\* if state_values_target is None: state_values_target = state_values
StateValuesTarget(a) ==
    IF a.state_values_target = None THEN a.state_values
    ELSE a.state_values_target


\* Mutant: the after-end values are not passed on to the return estimator.
ReferenceStateValues_drops_after_end(a) ==
    get_n_step_value_reference(
        IF a.state_values_target = None THEN a.state_values
        ELSE a.state_values_target,
        a.rewards, a.is_alive, a.n_steps, zeros, a.gamma_or_gammas)

\* reference_state_values = get_n_step_value_reference(...)
ReferenceStateValues(a) ==
    get_n_step_value_reference(StateValuesTarget(a), a.rewards, a.is_alive,
                               a.n_steps, a.state_values_after_end,
                               a.gamma_or_gammas)


\* Mutant: the after-end values are added undiscounted.
TerminalOverride_drops_gamma(reference_state_values, rewards, is_alive, gamma_or_gammas, force_values_after_end, state_values_after_end) ==
    IF is_alive # always /\ force_values_after_end
    THEN LET end_ids == get_end_indicator(is_alive, TRUE)
         IN  [b \in Batch(rewards) |-> [t \in Ticks(rewards) |->
                 IF end_ids[b][t] = 0 THEN reference_state_values[b][t]
                 ELSE IF state_values_after_end = zeros
                      THEN rewards[b][t] * Scale
                      ELSE (rewards[b][t] + state_values_after_end[b]) * Scale]]
    ELSE reference_state_values

\* Mutant: inc_subtensor in place of set_subtensor.
TerminalOverride_increments(reference_state_values, rewards, is_alive, gamma_or_gammas, force_values_after_end, state_values_after_end) ==
    IF is_alive # always /\ force_values_after_end
    THEN LET end_ids == get_end_indicator(is_alive, TRUE)
         IN  [b \in Batch(rewards) |-> [t \in Ticks(rewards) |->
                 IF end_ids[b][t] = 0 THEN reference_state_values[b][t]
                 ELSE IF state_values_after_end = zeros
                      THEN reference_state_values[b][t] + rewards[b][t] * Scale
                      ELSE reference_state_values[b][t] + rewards[b][t] * Scale
                           + MulGamma(gamma_or_gammas,
                                      state_values_after_end[b] * Scale)]]
    ELSE reference_state_values

\* Mutant: the end ticks always get the immediate rewards alone.
TerminalOverride_rewards_only(reference_state_values, rewards, is_alive, gamma_or_gammas, force_values_after_end, state_values_after_end) ==
    IF is_alive # always /\ force_values_after_end
    THEN LET end_ids == get_end_indicator(is_alive, TRUE)
         IN  [b \in Batch(rewards) |-> [t \in Ticks(rewards) |->
                 IF end_ids[b][t] = 0 THEN reference_state_values[b][t]
                 ELSE rewards[b][t] * Scale]]
    ELSE reference_state_values

\* if is_alive != "always" and force_values_after_end: set_subtensor at end_ids
TerminalOverride(reference_state_values, rewards, is_alive, gamma_or_gammas, force_values_after_end, state_values_after_end) ==
    IF is_alive # always /\ force_values_after_end
    THEN LET end_ids == get_end_indicator(is_alive, TRUE)
         IN  [b \in Batch(rewards) |-> [t \in Ticks(rewards) |->
                 IF end_ids[b][t] = 0 THEN reference_state_values[b][t]
                 ELSE IF state_values_after_end = zeros
                      THEN rewards[b][t] * Scale
                      ELSE rewards[b][t] * Scale
                           + MulGamma(gamma_or_gammas,
                                      state_values_after_end[b] * Scale)]]
    ELSE reference_state_values

\* if is_alive == "always": is_alive = T.ones_like(actions)
LivenessMask(a) ==
    IF a.is_alive = always THEN ones_like(a.actions) ELSE a.is_alive

\* if crop_last: set_subtensor(reference_state_values[:, -1], state_values[:, -1])
CropLast(reference_state_values, state_values, crop_last) ==
    IF crop_last
    THEN [b \in Batch(state_values) |-> [t \in Ticks(state_values) |->
             IF t = Len(state_values[b]) THEN state_values[b][t] * Scale
             ELSE reference_state_values[b][t]]]
    ELSE reference_state_values

\* if consider_value_reference_constant: reference_state_values = consider_constant(...)
ReferenceOperand(reference_state_values, consider_value_reference_constant) ==
    IF consider_value_reference_constant
    THEN consider_constant(Var(reference_state_values))
    ELSE Var(reference_state_values)


\* Mutant: the min_proba switch is left out.
LogProbas_without_switch(action_probas, min_proba) ==
    [b \in Batch(action_probas) |-> [t \in Ticks(action_probas) |->
        FLog(action_probas[b][t])]]

\* log_probas with the min_proba switch
LogProbas(action_probas, min_proba) ==
    [b \in Batch(action_probas) |-> [t \in Ticks(action_probas) |->
        IF min_proba # 0
        THEN (IF action_probas[b][t] = 0
              THEN FLogPlus(action_probas[b][t], min_proba)
              ELSE FLog(action_probas[b][t]))
        ELSE FLog(action_probas[b][t])]]

\* observed_state_values
ObservedStateValues(state_values, consider_predicted_value_constant) ==
    IF consider_predicted_value_constant
    THEN consider_constant(Var(state_values))
    ELSE Var(state_values)

\* policy_loss_elwise = - log_probas * (reference_state_values - observed_state_values)
PolicyLoss(log_probas, reference, observed) ==
    [b \in Batch(log_probas) |-> [t \in Ticks(log_probas) |->
        FMul(FNeg(log_probas[b][t]),
             Fin((reference.val[b][t] - observed.val[b][t] * Scale) * Scale))]]


\* Mutant: the critic loss is taken against observed_state_values.
ValueLossOperands_uses_observed(reference, observed, state_values) ==
    <<reference, observed>>

\* V_err_elwise = squared_error(reference_state_values, state_values)
ValueLossOperands(reference, observed, state_values) ==
    <<reference, Var(state_values)>>

squared_error(x, y) ==
    [b \in Batch(x.val) |-> [t \in Ticks(x.val) |->
        Fin((x.val[b][t] - y.val[b][t] * Scale) * (x.val[b][t] - y.val[b][t] * Scale))]]

\* return (policy_loss_elwise + V_err_elwise) * is_alive
MaskedLoss(policy_loss_elwise, V_err_elwise, is_alive) ==
    [b \in Batch(is_alive) |-> [t \in Ticks(is_alive) |->
        FMul(FAdd(policy_loss_elwise[b][t], V_err_elwise[b][t]),
             Fin(is_alive[b][t]))]]

NoOut ==
    [error |-> "", returned |-> FALSE, estimated |-> <<>>, overridden |-> <<>>,
     reference |-> <<>>, log_probas |-> <<>>, policy_loss |-> <<>>,
     V_err |-> <<>>, loss |-> <<>>,
     policy_ref_const |-> FALSE, policy_val_const |-> FALSE,
     V_err_ref_const |-> FALSE, V_err_val_const |-> FALSE]

get_elementwise_objective(a) ==
    LET est == ReferenceStateValues(a)
    IN  IF est.error # "" THEN [NoOut EXCEPT !.error = est.error]
        ELSE
        LET overridden == TerminalOverride(est.value, a.rewards, a.is_alive,
                              a.gamma_or_gammas, a.force_values_after_end,
                              a.state_values_after_end)
            is_alive == LivenessMask(a)
            action_probas == get_action_Qvalues(a.policy, a.actions)
            cropped == CropLast(overridden, a.state_values, a.crop_last)
            reference == ReferenceOperand(cropped,
                             a.consider_value_reference_constant)
            log_probas == LogProbas(action_probas, a.min_proba)
            observed == ObservedStateValues(a.state_values,
                            a.consider_predicted_value_constant)
            policy_loss_elwise == PolicyLoss(log_probas, reference, observed)
            operands == ValueLossOperands(reference, observed, a.state_values)
            V_err_elwise == squared_error(operands[1], operands[2])
        IN  [error |-> "", returned |-> TRUE,
             estimated |-> est.value, overridden |-> overridden,
             reference |-> reference.val, log_probas |-> log_probas,
             policy_loss |-> policy_loss_elwise, V_err |-> V_err_elwise,
             loss |-> MaskedLoss(policy_loss_elwise, V_err_elwise, is_alive),
             policy_ref_const |-> reference.const,
             policy_val_const |-> observed.const,
             V_err_ref_const |-> operands[1].const,
             V_err_val_const |-> operands[2].const]

(***************************************************************************)
(* The arguments of a call                                                 *)
(***************************************************************************)
Row(T, x) == [t \in 1 .. T |-> x]

\* A session that is alive for its first k ticks.
AliveFor(T, k) == [t \in 1 .. T |-> IF t <= k THEN 1 ELSE 0]
Masks(T) == {AliveFor(T, k) : k \in 0 .. T}

\* An older network's state values: a different value at every tick, none of
\* them a value of state_values.
OlderSnapshot(T) == [t \in 1 .. T |-> t + 1]

\* (1/2, 1/2) and (0, 1) over two actions, in halves.
PolicyCells == {<<1, 1>>, <<0, 2>>}
ActionIds == {0, 1}
Gammas == {<<1, 2>>, <<1, 1>>}

\* The defaults of the signature on a one-row batch of T ticks: every reward
\* 1, every predicted value 0, every action probability 1/2.
Defaults(T) ==
    [policy |-> <<Row(T, <<1, 1>>)>>, state_values |-> <<Row(T, 0)>>,
     actions |-> <<Row(T, 0)>>, rewards |-> <<Row(T, 1)>>,
     is_alive |-> always, state_values_target |-> None, n_steps |-> None,
     gamma_or_gammas |-> <<1, 2>>, crop_last |-> TRUE,
     force_values_after_end |-> TRUE, state_values_after_end |-> zeros,
     consider_value_reference_constant |-> TRUE,
     consider_predicted_value_constant |-> TRUE, min_proba |-> 1]

\* Calls that vary what the return estimator and the terminal override read;
\* the last column is not cropped, so that its reference reaches the loss.
ReturnCall(a) ==
    \E T \in 1 .. MaxT :
    \E r \in [1 .. T -> {0, 1}], v \in [1 .. T -> {0, 1}],
       tg \in {None, <<OlderSnapshot(T)>>},
       al \in {always} \cup {<<m>> : m \in Masks(T)},
       n \in {None} \cup {<<k>> : k \in 1 .. MaxT - 1},
       g \in Gammas, ae \in {zeros, <<1>>}, f \in BOOLEAN :
        a = [Defaults(T) EXCEPT !.rewards = <<r>>, !.state_values = <<v>>,
                                !.state_values_target = tg, !.is_alive = al,
                                !.n_steps = n, !.gamma_or_gammas = g,
                                !.state_values_after_end = ae,
                                !.force_values_after_end = f,
                                !.crop_last = FALSE]

\* Calls that vary what the loss assembly reads.
AssemblyCall(a) ==
    \E T \in 1 .. MaxT :
    \E p \in [1 .. T -> PolicyCells], ac \in [1 .. T -> ActionIds],
       v \in [1 .. T -> {0, 1}], m \in Masks(T), mp \in {0, 1},
       c \in BOOLEAN :
        a = [Defaults(T) EXCEPT !.policy = <<p>>, !.actions = <<ac>>,
                                !.state_values = <<v>>, !.is_alive = <<m>>,
                                !.min_proba = mp, !.crop_last = c]

\* Calls that vary the gradient-blocking flags.
GradientCall(a) ==
    \E T \in 1 .. MaxT :
    \E rc \in BOOLEAN, vc \in BOOLEAN,
       al \in {always} \cup {<<m>> : m \in Masks(T)},
       c \in BOOLEAN, f \in BOOLEAN :
        a = [Defaults(T) EXCEPT !.consider_value_reference_constant = rc,
                                !.consider_predicted_value_constant = vc,
                                !.is_alive = al, !.crop_last = c,
                                !.force_values_after_end = f]

\* Calls with a configuration the interface excludes.
InvalidCall(a) ==
    \E T \in 1 .. MaxT :
    \E n \in {None, <<1>>, <<0>>, <<-1>>}, mp \in {-1, 0, 1},
       p \in [1 .. T -> PolicyCells],
       al \in {always} \cup {<<m>> : m \in Masks(T)} :
        a = [Defaults(T) EXCEPT !.n_steps = n, !.min_proba = mp,
                                !.policy = <<p>>, !.is_alive = al]

\* Calls on a batch of B rows of two ticks, every row with its own rewards,
\* liveness and after-end value.
BatchCall(a) ==
    \E B \in 1 .. MaxBatch :
    \E r \in [1 .. B -> [1 .. 2 -> {0, 1}]],
       al \in {always} \cup [1 .. B -> Masks(2)],
       ae \in {zeros} \cup [1 .. B -> {1, 2}],
       c \in BOOLEAN, f \in BOOLEAN :
        a = [policy |-> [b \in 1 .. B |-> Row(2, <<1, 1>>)],
             state_values |-> [b \in 1 .. B |-> Row(2, 0)],
             actions |-> [b \in 1 .. B |-> Row(2, 0)],
             rewards |-> r, is_alive |-> al, state_values_target |-> None,
             n_steps |-> None, gamma_or_gammas |-> <<1, 2>>, crop_last |-> c,
             force_values_after_end |-> f, state_values_after_end |-> ae,
             consider_value_reference_constant |-> TRUE,
             consider_predicted_value_constant |-> TRUE, min_proba |-> 1]

(***************************************************************************)
(* The state machine: one call of get_elementwise_objective                *)
(***************************************************************************)
Init ==
    /\ \/ ReturnCall(inp)
       \/ AssemblyCall(inp)
       \/ GradientCall(inp)
       \/ InvalidCall(inp)
       \/ BatchCall(inp)
    /\ out = NoOut
    /\ pc = "ready"

Call ==
    /\ pc = "ready"
    /\ out' = get_elementwise_objective(inp)
    /\ pc' = "done"
    /\ UNCHANGED inp

Next == Call

Spec == Init /\ [][Next]_vars

(***************************************************************************)
(* The terminal override applied repeatedly to an arbitrary reference      *)
(***************************************************************************)
\* How often the override is applied in a row.
MaxApplications == 2

InitOverride ==
    /\ \E T \in 1 .. MaxT :
       \E ref \in [1 .. T -> {0, 7 * Scale}], r \in [1 .. T -> {0, 1}],
          al \in {always} \cup {<<m>> : m \in Masks(T)},
          g \in Gammas, ae \in {zeros, <<1>>}, f \in BOOLEAN :
           inp = [reference_state_values |-> <<ref>>, rewards |-> <<r>>,
                  is_alive |-> al, gamma_or_gammas |-> g,
                  force_values_after_end |-> f,
                  state_values_after_end |-> ae]
    /\ out = <<>>
    /\ pc = "ready"

ApplyOverride ==
    /\ Len(out) < MaxApplications
    /\ out' = Append(out,
                 TerminalOverride(
                     IF out = <<>> THEN inp.reference_state_values
                     ELSE out[Len(out)],
                     inp.rewards, inp.is_alive, inp.gamma_or_gammas,
                     inp.force_values_after_end, inp.state_values_after_end))
    /\ pc' = "overridden"
    /\ UNCHANGED inp

NextOverride == ApplyOverride

SpecOverride == InitOverride /\ [][NextOverride]_vars

(***************************************************************************)
(* Properties                                                              *)
(***************************************************************************)
Returned == pc = "done" /\ out.returned

Cells == {<<b, t>> : b \in Batch(inp.rewards), t \in Ticks(inp.rewards)}
LastTick == Len(inp.rewards[1])

\* The selected action probability of a cell, read off the arguments.
SelectedProba(b, t) == inp.policy[b][t][inp.actions[b][t] + 1]

\* Liveness of a cell, read off the arguments.
Alive(b, t) == IF inp.is_alive = always THEN 1 ELSE inp.is_alive[b][t]

\* The after-end value of a row, read off the arguments.
AfterEnd(b) ==
    IF inp.state_values_after_end = zeros THEN 0
    ELSE inp.state_values_after_end[b]

\* x * gamma^k as a numerator over Scale.
Discounted(x, k) ==
    (x * Scale * inp.gamma_or_gammas[1] ^ k) \div inp.gamma_or_gammas[2] ^ k

\* rewards[t] + gamma rewards[t+1] + ... + gamma^(T-t) rewards[T]
\*   + gamma^(T-t+1) after_end, ticks counted from 1.
RECURSIVE DiscountedRewards(_, _, _)
DiscountedRewards(b, t, k) ==
    IF k > LastTick THEN 0
    ELSE Discounted(inp.rewards[b][k], k - t) + DiscountedRewards(b, t, k + 1)

MonteCarloReturn(b, t) ==
    DiscountedRewards(b, t, t) + Discounted(AfterEnd(b), LastTick - t + 1)

\* The values the reference is bootstrapped from, read off the arguments.
TargetValue(b, t) ==
    IF inp.state_values_target = None THEN inp.state_values[b][t]
    ELSE inp.state_values_target[b][t]

OneStepReturn(b, t) ==
    IF t < LastTick
    THEN Discounted(inp.rewards[b][t], 0) + Discounted(TargetValue(b, t + 1), 1)
    ELSE Discounted(inp.rewards[b][t], 0) + Discounted(AfterEnd(b), 1)

\* An episode boundary: the last alive tick of a row, or the last tick.
IsBoundary(b, t) ==
    \/ t = LastTick
    \/ inp.is_alive[b][t] = 1 /\ inp.is_alive[b][t + 1] = 0

----------------------------------------------------------------------------
\* C1: with an explicit is_alive mask, the returned loss is exactly 0 at
\* every cell whose is_alive is 0, whatever the other arguments of a valid
\* configuration are.
C1_DeadCellsHaveZeroLoss ==
    (Returned /\ inp.is_alive # always /\ inp.min_proba >= 0) =>
        \A c \in Cells :
            inp.is_alive[c[1]][c[2]] = 0 => out.loss[c[1]][c[2]] = Fin(0)

----------------------------------------------------------------------------
\* C2: with is_alive "always" and n_steps None the return estimator yields,
\* at every tick of every row, the discounted Monte-Carlo return to the end
\* of the trajectory plus the discounted after-end value, whatever
\* state_values_target is.
C2_AlwaysAliveMonteCarlo ==
    (Returned /\ inp.is_alive = always /\ inp.n_steps = None) =>
        \A c \in Cells :
            out.estimated[c[1]][c[2]] = MonteCarloReturn(c[1], c[2])

C2_Witness ==
    /\ Returned /\ inp.is_alive = always /\ inp.n_steps = None
    /\ LastTick = MaxT
    /\ inp.state_values_after_end # zeros
    /\ inp.state_values_target # None
    /\ inp.gamma_or_gammas = <<1, 2>>
    /\ \A t \in 1 .. LastTick : inp.rewards[1][t] = 1
    /\ out.estimated[1][1] = 2 * Scale - 1

----------------------------------------------------------------------------
----------------------------------------------------------------------------
----------------------------------------------------------------------------
\* C5: with crop_last the reference at the last tick is state_values there,
\* the value loss at the last tick is zero and the returned loss at the last
\* tick is zero, whatever the other arguments of a valid configuration are.
C5_CropLastZeroesFinalTick ==
    (Returned /\ inp.crop_last /\ inp.min_proba >= 0) =>
        \A b \in Batch(inp.rewards) :
            /\ out.reference[b][LastTick] = inp.state_values[b][LastTick] * Scale
            /\ out.V_err[b][LastTick] = Fin(0)
            /\ out.loss[b][LastTick] = Fin(0)

----------------------------------------------------------------------------
\* C6 as stated: neither operand of the value loss is ever detached; the
\* flags detach the reference and the predicted value in the policy term only.
C6_ValueLossNeverDetached ==
    Returned =>
        /\ ~out.V_err_ref_const
        /\ ~out.V_err_val_const
        /\ out.policy_ref_const = inp.consider_value_reference_constant
        /\ out.policy_val_const = inp.consider_predicted_value_constant

\* C6 as amended: the value loss is the squared error between the reference
\* and the predicted state value; its reference operand is detached exactly
\* when consider_value_reference_constant is set, as in the policy term, and
\* its predicted value is never detached; consider_predicted_value_constant
\* detaches the predicted value in the policy term only.
C6_ValueLossSharesReference ==
    Returned =>
        /\ out.V_err_ref_const = inp.consider_value_reference_constant
        /\ ~out.V_err_val_const
        /\ out.policy_ref_const = inp.consider_value_reference_constant
        /\ out.policy_val_const = inp.consider_predicted_value_constant
        /\ \A c \in Cells :
              LET d == out.reference[c[1]][c[2]]
                       - inp.state_values[c[1]][c[2]] * Scale
              IN  out.V_err[c[1]][c[2]] = Fin(d * d)

C6_Witness ==
    /\ Returned
    /\ inp.consider_value_reference_constant
    /\ inp.consider_predicted_value_constant
    /\ out.V_err_ref_const
    /\ ~out.V_err_val_const
    /\ \E c \in Cells : out.V_err[c[1]][c[2]] # Fin(0)

----------------------------------------------------------------------------
\* C7: with min_proba > 0 the log-probability of the policy term is
\* log(min_proba) exactly where the selected probability is 0 and log(p)
\* elsewhere, and no policy-loss cell is non-finite; with min_proba = 0 it
\* is log(p) everywhere.
C7_MinProbaSubstitution ==
    Returned =>
        \A c \in Cells :
            LET p == SelectedProba(c[1], c[2])
                logp == out.log_probas[c[1]][c[2]]
            IN  /\ inp.min_proba > 0 =>
                    /\ logp = IF p = 0 THEN Fin(0 - MinProbaLog2) ELSE FLog(p)
                    /\ IsFinite(out.policy_loss[c[1]][c[2]])
                /\ inp.min_proba = 0 => logp = FLog(p)

C7_Witness ==
    /\ Returned /\ inp.min_proba > 0
    /\ \E c \in Cells :
          /\ SelectedProba(c[1], c[2]) = 0
          /\ out.log_probas[c[1]][c[2]] = Fin(0 - MinProbaLog2)
          /\ out.policy_loss[c[1]][c[2]].v # 0
    /\ \E c \in Cells :
          /\ SelectedProba(c[1], c[2]) = 1
          /\ out.log_probas[c[1]][c[2]] = Fin(-1)

----------------------------------------------------------------------------
\* C8: a call with a non-positive n_steps or a negative min_proba fails with
\* InvalidConfiguration and returns no loss.
C8_InvalidConfigurationRejected ==
    (/\ pc = "done"
     /\ \/ inp.n_steps # None /\ inp.n_steps[1] <= 0
        \/ inp.min_proba < 0) =>
        out.error = "InvalidConfiguration" /\ ~out.returned

----------------------------------------------------------------------------
\* C9: applying the terminal override to its own output, with the same
\* rewards, is_alive, gamma and after-end values, changes nothing.
C9_TerminalOverrideIdempotent ==
    \A i \in 2 .. Len(out) : out[i] = out[1]

C9_Witness ==
    /\ Len(out) >= 2
    /\ inp.is_alive # always /\ inp.force_values_after_end
    /\ out[1] # inp.reference_state_values
    /\ \E t \in 1 .. LastTick - 1 :
          out[1][1][t] # inp.reference_state_values[1][t]

----------------------------------------------------------------------------
\* C10: a call with an explicit all-ones mask returns, at every cell, the
\* loss of the same call with is_alive "always".
C10_AlwaysEqualsAllOnes ==
    (pc = "done" /\ inp.is_alive = ones_like(inp.rewards)) =>
        LET same == get_elementwise_objective([inp EXCEPT !.is_alive = always])
        IN  out.error = same.error /\ out.loss = same.loss

C10_Witness ==
    /\ Returned /\ inp.is_alive = ones_like(inp.rewards)
    /\ inp.force_values_after_end /\ ~inp.crop_last
    /\ inp.state_values_after_end # zeros
    /\ inp.n_steps = <<1>>
    /\ LastTick = MaxT
    /\ out.loss[1][LastTick] # Fin(0)

====
